---- MODULE Spec2Model ----
(***************************************************************************)
(* Model of TCPServer.py (TCPServer_For_Softimage): the host thread that   *)
(* runs the plugin callbacks and the timer event, the server threads that  *)
(* run SocketServer.TCPServer.serve_forever() and the requests handlers,   *)
(* the shared Runtime.requestsStack, and the clients of the server.        *)
(* Byte strings are TLA+ strings; a read of the socket returns one chunk.  *)
(***************************************************************************)
EXTENDS Integers, Sequences, FiniteSets, TLC

\* ------------------------------------------------------------------ bounds
MaxSrv == 2          \* SocketServer objects (with their thread) alive at once
MaxClients == 2      \* client processes
MaxInbuf == 1        \* chunks sent by a client and not yet read by recv()
MaxSend == 2         \* chunks a client gets echoed on one connection
MaxQueue == 2        \* blobs in Runtime.requestsStack

\* --------------------------------------------------------------- constants
EchoRequestsHandler == "EchoRequestsHandler"
LoggingStackDataRequestsHandler == "LoggingStackDataRequestsHandler"
DefaultStackDataRequestsHandler == "DefaultStackDataRequestsHandler"
PythonStackDataRequestsHandler == "PythonStackDataRequestsHandler"

requestEnd == "<!RE>"
name == "TCPServer"
defaultAddress == "127.0.0.1"
defaultPort == 12288
defaultRequestsHandler == DefaultStackDataRequestsHandler
languages == <<"VBScript", "JScript", "Python", "PythonScript", "PerlScript">>

\* errno of "address already in use": WSAEADDRINUSE on Windows, EADDRINUSE
\* on Linux (the two platforms of the module)
WSAEADDRINUSE == 10048
AddrInUseErrnos == {WSAEADDRINUSE, 98}

\* _getRequestsHandlers(): the handler classes of the module, sorted by name
_getRequestsHandlers ==
    <<DefaultStackDataRequestsHandler, EchoRequestsHandler,
      LoggingStackDataRequestsHandler, PythonStackDataRequestsHandler>>

Handlers == {_getRequestsHandlers[i] : i \in 1..Len(_getRequestsHandlers)}

\* ------------------------------------------------------------- environment
Addresses == {defaultAddress}
Ports == {defaultPort, 12289}
Whitespace == {" ", "\t", "\n", "\r"}
\* the paths that exist on the filesystem
ExistingPaths == {"/s.py", "Python|f"}
\* what one recv() of a connection can return
Chunks == {"a", "JScript|a<!RE>"}
\* the reads of a connection that frames its payload with requestEnd: the
\* terminator whole, split between two reads ("b<!", "RE>c") or three
\* ("b<!", "R", "E>"), alone, or followed by more bytes
FrameChunks == {"a", "b<!", "RE>c", "R", "E>", "<!RE>", "ab<!RE>c"}
\* the reads of a connection of DefaultStackDataRequestsHandler: a path in
\* whitespace, a path that reads as tagged code, tagged code of one line and
\* of two, a tag that starts with another tag, and a blob of no kind
DispChunks == {" /s.py\n", "Python|f", "JScript |a", "Python|a\nb",
               "PythonScript|c", "zz"}
\* the ports a caller gives to the constructor of TCPServer
PortInputs == {defaultPort, 65536, -1}
\* the ports other processes of the machine bind at times
ForeignPorts == {12289}

SrvIds == 1..MaxSrv
Clients == 1..MaxClients
None == [none |-> TRUE]

VARIABLES
    server,            \* Runtime.server: None or the TCPServer instance
    address,           \* Runtime.address
    port,              \* Runtime.port
    requestsHandler,   \* Runtime.requestsHandler
    requestsStack,     \* Runtime.requestsStack
    sock,              \* the SocketServer.TCPServer objects and their thread
    cl,                \* the clients and their connection
    foreign,           \* ports bound by other processes
    hpc,               \* position of the host thread
    cont,              \* the callback that waits in stop()
    loaded,            \* the plugin is loaded
    statusFile,        \* active flag of tcpserver.ini (None before it is written)
    calls,             \* Host calls of the latest step of the host thread
    raised,            \* exception raised by the latest host operation
    lastOp,            \* the latest host operation
    idleTicks,         \* processData() calls in a row, no push in between
    dispatched,        \* the blob processData() has popped; flip marks each
                       \* pop; snapshot counts the blobs still to pop of the
                       \* queue as the call found it (-1: the blob came later)
    prefs              \* the settings the preferences of the host hold

vars == <<server, address, port, requestsHandler, requestsStack, sock, cl,
          foreign, hpc, cont, loaded, statusFile, calls, raised,
          lastOp, idleTicks, dispatched, prefs>>

runtimeVars == <<server, address, port, requestsHandler>>
hostVars == <<hpc, cont, loaded, statusFile, calls, raised, lastOp>>

\* ----------------------------------------------------------- byte strings
\* str.find(): 0-based index of the first occurrence of t in s, or -1
find(s, t) ==
    LET hits == {i \in 1..(Len(s) - Len(t) + 1) : SubSeq(s, i, i + Len(t) - 1) = t}
    IN  IF hits = {} THEN -1
        ELSE (CHOOSE i \in hits : \A j \in hits : i <= j) - 1

\* the "in" operator of two strings
contains(s, t) == find(s, t) # -1

\* s[:n]
prefix(s, n) == SubSeq(s, 1, n)

char(s, i) == SubSeq(s, i, i)

\* first position >= i of s that holds no whitespace (Len(s) + 1 if none)
skipWs(s, i) ==
    LET stops == {j \in i..Len(s) : char(s, j) \notin Whitespace}
    IN  IF stops = {} THEN (IF i > Len(s) + 1 THEN i ELSE Len(s) + 1)
        ELSE CHOOSE j \in stops : \A m \in stops : j <= m

\* last position of s that holds no whitespace (0 if none)
lastNonWs(s) ==
    LET stops == {j \in 1..Len(s) : char(s, j) \notin Whitespace}
    IN  IF stops = {} THEN 0
        ELSE CHOOSE j \in stops : \A m \in stops : j >= m

\* str.strip()
strip(s) == SubSeq(s, skipWs(s, 1), lastNonWs(s))

\* "".join(allData)
RECURSIVE join(_)
join(allData) ==
    IF allData = <<>> THEN "" ELSE Head(allData) \o join(Tail(allData))

\* os.path.exists()
exists(path) == path \in ExistingPaths

\* re.match(r"\s*(?P<language>%s)\s*\|(?P<code>.*)" % language, data):
\* the groups of the match, or None; "." does not match a newline
match(language, data) ==
    LET i == skipWs(data, 1)
        j == skipWs(data, i + Len(language))
        rest == SubSeq(data, j + 1, Len(data))
        nl == find(rest, "\n")
    IN  IF /\ i + Len(language) - 1 <= Len(data)
           /\ SubSeq(data, i, i + Len(language) - 1) = language
           /\ j <= Len(data)
           /\ char(data, j) = "|"
        THEN [language |-> language,
              code |-> IF nl = -1 THEN rest ELSE prefix(rest, nl)]
        ELSE None

\* ------------------------------------------------------------- Host calls
\* a call of a Host capability: Application.LogMessage (log),
\* Application.ExecuteScriptCode (execute), Application.ExecuteScript
\* (executeFile); thread and by tell who made the call
HostCall(cap, arg, lang, thread, by) ==
    [cap |-> cap, arg |-> arg, lang |-> lang, thread |-> thread, by |-> by]

Log(msg, by) == HostCall("log", msg, "", "host", by)

\* ------------------------------------------------------------------ state
\* TCPServer.__init__: srv is __server and worker is __worker (0 is None);
\* the setters of address, port and handler assert the type of the value and
\* nothing else, and every port here is an int
TCPServer(a, p, handler) ==
    [address |-> a, port |-> p, handler |-> handler,
     srv |-> 0, worker |-> 0, online |-> FALSE]

\* a slot that holds no SocketServer.TCPServer object; erred tells that
\* handle_error() of the object has run for an exception of a handler
FreeSock ==
    [state |-> "free", address |-> "", port |-> 0, handler |-> "",
     shutdownReq |-> FALSE, conn |-> 0, allData |-> <<>>, erred |-> FALSE]

\* a client that has no connection
IdleClient ==
    [st |-> "idle", srv |-> 0, inbuf |-> <<>>, closed |-> FALSE, echoed |-> <<>>]

Op(op, bind, empty) == [op |-> op, bind |-> bind, empty |-> empty]

Init ==
    /\ server = None
    /\ address = defaultAddress
    /\ port = defaultPort
    /\ requestsHandler = defaultRequestsHandler
    /\ requestsStack = <<>>
    /\ sock = [k \in SrvIds |-> FreeSock]
    /\ cl = [c \in Clients |-> IdleClient]
    /\ foreign = {}
    /\ hpc = "idle"
    /\ cont = "none"
    /\ loaded = TRUE
    /\ statusFile = None
    /\ calls = <<>>
    /\ raised = "none"
    /\ lastOp = Op("none", "none", FALSE)
    /\ idleTicks = 0
    /\ dispatched = [item |-> None, flip |-> FALSE, snapshot |-> 0]
    /\ prefs \in {None} \cup [address : Addresses, port : Ports, handler : Handlers]

\* the part of the state a host operation works on, as one value
World ==
    [server |-> server, sock |-> sock, cl |-> cl, statusFile |-> statusFile,
     calls |-> <<>>, raised |-> "none", bind |-> "none"]

\* --------------------------------------------------- sockets of the program
\* who holds the port p: another process, a socket of this program, nobody
heldBy(w, p) ==
    IF p \in foreign THEN "foreign"
    ELSE IF \E k \in SrvIds : w.sock[k].state # "free" /\ w.sock[k].port = p
         THEN "own"
         ELSE "ok"

HasFreeSlot(w) == \E k \in SrvIds : w.sock[k].state = "free"

freeSlot(w) ==
    CHOOSE k \in SrvIds :
        /\ w.sock[k].state = "free"
        /\ \A j \in SrvIds : w.sock[j].state = "free" => k <= j

\* the SocketServer object k is finalised: its listening socket is closed and
\* the connections that wait in its backlog are reset
closeSock(w, k) ==
    [w EXCEPT !.sock[k] = FreeSock,
              !.cl = [c \in Clients |->
                        IF w.cl[c].srv = k /\ w.cl[c].st = "pending"
                        THEN IdleClient ELSE w.cl[c]]]

\* the TCPServer instance gives up its reference to the SocketServer object
\* k; the object is finalised if its thread has already ended
dropServerRef(w, k) ==
    IF k # 0 /\ w.sock[k].state = "dead" THEN closeSock(w, k) ELSE w

\* ------------------------------------------------------------- TCPServer
\* a start() that does not test the online flag
start_unchecked(w, errno) ==
    LET self == w.server
        held == heldBy(w, self.port)
    IN  IF self.port \notin 0..65535
        THEN [w EXCEPT !.raised = "OverflowError"]
        ELSE IF held # "ok"
        THEN [w EXCEPT !.raised = IF errno = WSAEADDRINUSE
                                  THEN "TypeError" ELSE "socket.error",
                       !.bind = held]
        ELSE LET k == freeSlot(w)
             IN  [w EXCEPT
                    !.sock[k] = [state |-> "select", address |-> self.address,
                                 port |-> self.port, handler |-> self.handler,
                                 shutdownReq |-> FALSE, conn |-> 0,
                                 allData |-> <<>>, erred |-> FALSE],
                    !.server = [self EXCEPT !.srv = k, !.worker = k,
                                            !.online = TRUE],
                    !.calls = Append(@, Log("Server successfully started", "start")),
                    !.bind = "ok"]

\* TCPServer.start() of the instance w.server; errno is the error number the
\* platform gives when the address is in use
start(w, errno) ==
    LET self == w.server
        held == heldBy(w, self.port)
    IN  IF self.online
        THEN [w EXCEPT !.raised = "ServerOperationError"]
        ELSE IF self.port \notin 0..65535
        THEN \* bind() of a port that is no 16-bit number: OverflowError, which
             \* "except socket.error" does not catch
             [w EXCEPT !.raised = "OverflowError"]
        ELSE IF held # "ok"
        THEN \* the warning's format has two %s for three values: TypeError
             [w EXCEPT !.raised = IF errno = WSAEADDRINUSE
                                  THEN "TypeError" ELSE "socket.error",
                       !.bind = held]
        ELSE LET k == freeSlot(w)
             IN  [w EXCEPT
                    !.sock[k] = [state |-> "select", address |-> self.address,
                                 port |-> self.port, handler |-> self.handler,
                                 shutdownReq |-> FALSE, conn |-> 0,
                                 allData |-> <<>>, erred |-> FALSE],
                    !.server = [self EXCEPT !.srv = k, !.worker = k,
                                            !.online = TRUE],
                    !.calls = Append(@, Log("Server successfully started", "start")),
                    !.bind = "ok"]

\* TCPServer.stop() once self.__server.shutdown() has returned
stop_finish(w) ==
    LET k == w.server.srv
        w1 == [w EXCEPT !.server.srv = 0, !.server.worker = 0,
                        !.server.online = FALSE,
                        !.calls = Append(@, Log("Server successfully stopped!", "stop"))]
    IN  dropServerRef(w1, k)

\* ------------------------------------------------------- module functions
_setServerStatusFile(w, active) == [w EXCEPT !.statusFile = [active |-> active]]

\* a _startServer() that does not test whether the server is online
_startServer_unchecked(w, a, p, handler, errno) ==
    LET w1 == IF w.server = None THEN w ELSE dropServerRef(w, w.server.srv)
        w2 == start([w1 EXCEPT !.server = TCPServer(a, p, handler)], errno)
    IN  IF w2.raised # "none" THEN w2 ELSE _setServerStatusFile(w2, 1)

_startServer(w, a, p, handler, errno) ==
    IF w.server # None /\ w.server.online
    THEN [w EXCEPT !.calls = Append(@, Log("The server is already online!", "_startServer"))]
    ELSE LET w1 == IF w.server = None THEN w ELSE dropServerRef(w, w.server.srv)
             w2 == start([w1 EXCEPT !.server = TCPServer(a, p, handler)], errno)
         IN  IF w2.raised # "none" THEN w2 ELSE _setServerStatusFile(w2, 1)

\* _stopServer() when it does not have to call stop(): the server is None or
\* is not online
_stopServer_offline(w) ==
    IF w.server # None
    THEN [w EXCEPT !.calls = Append(@, Log("The server is not online!", "_stopServer"))]
    ELSE _setServerStatusFile(w, 0)

\* _stopServer() once stop() of the online server has returned
_stopServer_finish(w) == _setServerStatusFile(stop_finish(w), 0)

\* _startServer() binds a new socket unless the server is online
Startable(w) == (w.server # None /\ w.server.online) \/ HasFreeSlot(w)

\* a host operation ends: its effects are stored in the variables
Commit(w, op) ==
    /\ server' = w.server
    /\ sock' = w.sock
    /\ cl' = w.cl
    /\ statusFile' = w.statusFile
    /\ calls' = w.calls
    /\ raised' = w.raised
    /\ lastOp' = Op(op, w.bind, FALSE)
    /\ idleTicks' = 0

HostIdle == hpc = "idle" /\ loaded

\* the host thread enters self.__server.shutdown() of the online server and
\* waits for the serve_forever() loop to end
EnterShutdown(w, op, c) ==
    /\ Commit([w EXCEPT !.sock[w.server.srv].shutdownReq = TRUE], op)
    /\ hpc' = "stop_wait"
    /\ cont' = c

\* ------------------------------------------------------ requests handlers
\* the outcome of one turn of the loop of handle(): next is "loop" (read
\* again), "return" or "raise"; push are the blobs appended to
\* Runtime.requestsStack, send the chunks written back to the connection,
\* host the Host calls made
Turn(next, push, send, allData, host) ==
    [next |-> next, push |-> push, send |-> send, allData |-> allData, host |-> host]

\* an echo handler that also queues what it echoes
EchoRequestsHandler_handle_pushing(allData, data) ==
    IF data = "" THEN Turn("return", <<>>, <<>>, allData, <<>>)
    ELSE Turn("loop", <<data>>, <<data>>, allData, <<>>)

EchoRequestsHandler_handle(allData, data) ==
    IF data = "" THEN Turn("return", <<>>, <<>>, allData, <<>>)
    ELSE Turn("loop", <<>>, <<data>>, allData, <<>>)

\* a handler that logs from handle() what it should have queued
LoggingStackDataRequestsHandler_handle_logging(allData, data) ==
    IF data = "" THEN Turn("return", <<>>, <<>>, allData, <<>>)
    ELSE Turn("loop", <<>>, <<>>, allData,
              <<HostCall("log", data, "", "server", "handle")>>)

LoggingStackDataRequestsHandler_handle(allData, data) ==
    IF data = "" THEN Turn("return", <<>>, <<>>, allData, <<>>)
    ELSE Turn("loop", <<data>>, <<>>, allData, <<>>)

DefaultStackDataRequestsHandler_handle(allData, data) ==
    IF data = "" THEN Turn("return", <<>>, <<>>, allData, <<>>)
    ELSE Turn("loop", <<data>>, <<>>, allData, <<>>)

\* a handle() that keeps the terminator and what follows it in the blob
PythonStackDataRequestsHandler_handle_whole(allData, data) ==
    IF data = ""
    THEN Turn("return", <<join(allData)>>, <<>>, allData, <<>>)
    ELSE IF contains(data, requestEnd)
    THEN Turn("return", <<join(Append(allData, data))>>, <<>>,
              Append(allData, data), <<>>)
    ELSE Turn("loop", <<>>, <<>>, Append(allData, data), <<>>)

PythonStackDataRequestsHandler_handle(allData, data) ==
    IF data = ""
    THEN Turn("return", <<join(allData)>>, <<>>, allData, <<>>)
    ELSE IF contains(data, requestEnd)
    THEN LET a == Append(allData, prefix(data, find(data, requestEnd)))
         IN  Turn("return", <<join(a)>>, <<>>, a, <<>>)
    ELSE LET a == Append(allData, data)
             n == Len(a)
         IN  IF n >= 1
             THEN IF n < 2
                  THEN \* allData[-2] of a list of one item: IndexError
                       Turn("raise", <<>>, <<>>, a, <<>>)
                  ELSE LET tail == a[n - 1] \o a[n]
                           b == [SubSeq(a, 1, n - 1) EXCEPT
                                   ![n - 1] = prefix(tail, find(tail, requestEnd))]
                       IN  IF contains(tail, requestEnd)
                           THEN Turn("return", <<join(b)>>, <<>>, b, <<>>)
                           ELSE Turn("loop", <<>>, <<>>, a, <<>>)
             ELSE Turn("loop", <<>>, <<>>, a, <<>>)

handle(handler, allData, data) ==
    CASE handler = EchoRequestsHandler -> EchoRequestsHandler_handle(allData, data)
      [] handler = LoggingStackDataRequestsHandler -> LoggingStackDataRequestsHandler_handle(allData, data)
      [] handler = DefaultStackDataRequestsHandler -> DefaultStackDataRequestsHandler_handle(allData, data)
      [] handler = PythonStackDataRequestsHandler -> PythonStackDataRequestsHandler_handle(allData, data)

\* a loop that does not test whether the deque is empty
processData_while_always(handler, q) ==
    handler # EchoRequestsHandler

\* a loop that leaves the last blob in the deque
processData_while_short(handler, q) ==
    handler # EchoRequestsHandler /\ Len(q) > 1

\* the condition of the "while Runtime.requestsStack:" loop of processData();
\* the processData() of EchoRequestsHandler is "pass"
processData_while(handler, q) ==
    handler # EchoRequestsHandler /\ q # <<>>

\* pop() in the place of popleft(): the deque is read from its right end
popleft_right(q) == [item |-> q[Len(q)], rest |-> SubSeq(q, 1, Len(q) - 1)]

\* Runtime.requestsStack.popleft()
popleft(q) == [item |-> Head(q), rest |-> Tail(q)]

ReturnValue ==
    HostCall("log", "Request return value", "", "host", "processData")

\* the body of the loop of processData() for the blob it has popped
LoggingStackDataRequestsHandler_processData(blob) ==
    <<HostCall("log", blob.data, "", "host", "processData")>>

\* a processData() that tries the language tags before the path
DefaultStackDataRequestsHandler_processData_tags_first(blob) ==
    LET data == strip(blob.data)
        hits == {i \in 1..Len(languages) : match(languages[i], data) # None}
        first == CHOOSE i \in hits : \A j \in hits : i <= j
        m == match(languages[first], data)
    IN  IF hits # {}
        THEN <<HostCall("execute", m.code, m.language, "host", "processData"),
               ReturnValue>>
        ELSE IF exists(data)
        THEN <<HostCall("executeFile", data, "", "host", "processData")>>
        ELSE <<>>

\* a processData() that logs the blob it does not recognize
DefaultStackDataRequestsHandler_processData_logging(blob) ==
    LET data == strip(blob.data)
        hits == {i \in 1..Len(languages) : match(languages[i], data) # None}
        first == CHOOSE i \in hits : \A j \in hits : i <= j
        m == match(languages[first], data)
    IN  IF exists(data)
        THEN <<HostCall("executeFile", data, "", "host", "processData")>>
        ELSE IF hits = {} THEN <<HostCall("log", data, "", "host", "processData")>>
        ELSE <<HostCall("execute", m.code, m.language, "host", "processData"),
               ReturnValue>>

DefaultStackDataRequestsHandler_processData(blob) ==
    LET data == strip(blob.data)
        hits == {i \in 1..Len(languages) : match(languages[i], data) # None}
        first == CHOOSE i \in hits : \A j \in hits : i <= j
        m == match(languages[first], data)
    IN  IF exists(data)
        THEN <<HostCall("executeFile", data, "", "host", "processData")>>
        ELSE IF hits = {} THEN <<>>
        ELSE <<HostCall("execute", m.code, m.language, "host", "processData"),
               ReturnValue>>

PythonStackDataRequestsHandler_processData(blob) ==
    <<HostCall("execute", blob.data, "Python", "host", "processData"),
      ReturnValue>>

\* a dispatch by the handler that queued the blob, not by the configured one
processData_by_origin(handler, blob) ==
    CASE blob.by = LoggingStackDataRequestsHandler -> LoggingStackDataRequestsHandler_processData(blob)
      [] blob.by = DefaultStackDataRequestsHandler -> DefaultStackDataRequestsHandler_processData(blob)
      [] blob.by = PythonStackDataRequestsHandler -> PythonStackDataRequestsHandler_processData(blob)
      [] OTHER -> <<>>

processData(handler, blob) ==
    CASE handler = LoggingStackDataRequestsHandler -> LoggingStackDataRequestsHandler_processData(blob)
      [] handler = DefaultStackDataRequestsHandler -> DefaultStackDataRequestsHandler_processData(blob)
      [] handler = PythonStackDataRequestsHandler -> PythonStackDataRequestsHandler_processData(blob)
      [] OTHER -> <<>>

\* --------------------------------------------------------- the host thread
\* _registerSettingsProperty(): the preferences get the default settings when
\* they hold none
_registerSettingsProperty(pr) ==
    IF pr = None
    THEN [address |-> defaultAddress, port |-> defaultPort,
          handler |-> defaultRequestsHandler]
    ELSE pr

\* _storeSettings(): the preferences, when they exist, get the settings
_storeSettings(pr, a, p, h) ==
    IF pr = None THEN pr ELSE [address |-> a, port |-> p, handler |-> h]

Called(op) == Log("called", op)

TCPServer_startupEvent_OnEvent ==
    /\ HostIdle
    /\ lastOp.op = "none"
    /\ prefs' = _registerSettingsProperty(prefs)
    /\ \E errno \in AddrInUseErrnos :
          \* _restoreSettings()
          LET a == prefs'.address
              p == prefs'.port
              h == prefs'.handler
              w0 == [World EXCEPT !.calls = <<Called("TCPServer_startupEvent_OnEvent")>>]
              w1 == _setServerStatusFile(w0, 0)
          IN  /\ Startable(w1)
              /\ address' = a
              /\ port' = p
              /\ requestsHandler' = h
              /\ Commit(_startServer(w1, a, p, h, errno), "TCPServer_startupEvent_OnEvent")
    /\ UNCHANGED <<requestsStack, foreign, hpc, cont, loaded, dispatched>>

TCPServer_start_Execute ==
    /\ HostIdle
    /\ \E errno \in AddrInUseErrnos :
          LET w0 == [World EXCEPT !.calls = <<Called("TCPServer_start_Execute")>>]
          IN  /\ Startable(w0)
              /\ Commit(_startServer(w0, address, port, requestsHandler, errno),
                        "TCPServer_start_Execute")
    /\ UNCHANGED <<address, port, requestsHandler, requestsStack, foreign, hpc,
                   cont, loaded, dispatched, prefs>>

\* _stopServer() from the operation op: it returns at once when the server is
\* None or offline and waits in stop() when it is online
StopServerFrom(w, op) ==
    IF w.server # None /\ w.server.online
    THEN EnterShutdown(w, op, op)
    ELSE /\ Commit(_stopServer_offline(w), op)
         /\ UNCHANGED <<hpc, cont>>

TCPServer_stop_Execute ==
    /\ HostIdle
    /\ StopServerFrom([World EXCEPT !.calls = <<Called("TCPServer_stop_Execute")>>],
                      "TCPServer_stop_Execute")
    /\ UNCHANGED <<address, port, requestsHandler, requestsStack, foreign,
                   loaded, dispatched, prefs>>

Unloaded(w) ==
    [w EXCEPT !.calls = Append(@, Log("has been unloaded!", "XSIUnloadPlugin"))]

XSIUnloadPlugin ==
    /\ HostIdle
    /\ IF server # None /\ server.online
       THEN /\ EnterShutdown(World, "XSIUnloadPlugin", "XSIUnloadPlugin")
            /\ UNCHANGED loaded
       ELSE /\ Commit(Unloaded(_stopServer_offline(World)), "XSIUnloadPlugin")
            /\ loaded' = FALSE
            /\ UNCHANGED <<hpc, cont>>
    /\ UNCHANGED <<address, port, requestsHandler, requestsStack, foreign,
                   dispatched, prefs>>

\* _restartServer() from the callback op, with the settings a, p, h
RestartServerFrom(op, a, p, h) ==
    IF server # None /\ server.online
    THEN EnterShutdown(World, op, "_restartServer")
    ELSE /\ Startable(World)
         /\ \E errno \in AddrInUseErrnos :
               Commit(_startServer(World, a, p, h, errno), op)
         /\ UNCHANGED <<hpc, cont>>

TCPServer_property_Address_siString_OnChanged ==
    /\ HostIdle
    /\ \E a \in Addresses :
          /\ address' = a
          /\ prefs' = _storeSettings(prefs, a, port, requestsHandler)
          /\ RestartServerFrom("TCPServer_property_Address_siString_OnChanged",
                               a, port, requestsHandler)
    /\ UNCHANGED <<port, requestsHandler, requestsStack, foreign, loaded,
                   dispatched>>

TCPServer_property_Port_siInt_OnChanged ==
    /\ HostIdle
    /\ \E p \in Ports :
          /\ port' = p
          /\ prefs' = _storeSettings(prefs, address, p, requestsHandler)
          /\ RestartServerFrom("TCPServer_property_Port_siInt_OnChanged",
                               address, p, requestsHandler)
    /\ UNCHANGED <<address, requestsHandler, requestsStack, foreign, loaded,
                   dispatched>>

TCPServer_property_RequestsHandlers_siInt_OnChanged ==
    /\ HostIdle
    /\ \E i \in 1..Len(_getRequestsHandlers) :
          /\ requestsHandler' = _getRequestsHandlers[i]
          /\ prefs' = _storeSettings(prefs, address, port, _getRequestsHandlers[i])
          /\ RestartServerFrom("TCPServer_property_RequestsHandlers_siInt_OnChanged",
                               address, port, _getRequestsHandlers[i])
    /\ UNCHANGED <<address, port, requestsStack, foreign, loaded, dispatched>>

\* a direct call of the constructor: Runtime.server becomes
\* TCPServer(Runtime.address, p, Runtime.requestsHandler), as in
\* _startServer(), in the place of no server or of an offline one
TCPServer__init__(p) ==
    /\ HostIdle
    /\ IF server = None THEN TRUE ELSE ~server.online
    /\ LET w1 == IF server = None THEN World
                 ELSE dropServerRef(World, server.srv)
       IN  Commit([w1 EXCEPT !.server = TCPServer(address, p, requestsHandler)],
                  "__init__")
    /\ UNCHANGED <<address, port, requestsHandler, requestsStack, foreign, hpc,
                   cont, loaded, dispatched, prefs>>

\* a direct call of Runtime.server.start()
TCPServer_start ==
    /\ HostIdle
    /\ server # None
    /\ Startable(World)
    /\ \E errno \in AddrInUseErrnos : Commit(start(World, errno), "start")
    /\ UNCHANGED <<address, port, requestsHandler, requestsStack, foreign, hpc,
                   cont, loaded, dispatched, prefs>>

\* a direct call of Runtime.server.stop()
TCPServer_stop ==
    /\ HostIdle
    /\ server # None
    /\ IF server.online
       THEN EnterShutdown(World, "stop", "stop")
       ELSE /\ Commit([World EXCEPT !.raised = "ServerOperationError"], "stop")
            /\ UNCHANGED <<hpc, cont>>
    /\ UNCHANGED <<address, port, requestsHandler, requestsStack, foreign,
                   loaded, dispatched, prefs>>

\* self.__server.shutdown() returns, stop() ends and its caller goes on
ShutdownReturns ==
    /\ hpc = "stop_wait"
    /\ sock[server.srv].state \in {"exiting", "dead"}
    /\ LET w0 == [World EXCEPT !.calls = calls]
       IN  CASE cont = "stop" ->
                  /\ Commit(stop_finish(w0), lastOp.op)
                  /\ UNCHANGED loaded
             [] cont = "TCPServer_stop_Execute" ->
                  /\ Commit(_stopServer_finish(w0), lastOp.op)
                  /\ UNCHANGED loaded
             [] cont = "XSIUnloadPlugin" ->
                  /\ Commit(Unloaded(_stopServer_finish(w0)), lastOp.op)
                  /\ loaded' = FALSE
             [] cont = "_restartServer" ->
                  /\ Startable(_stopServer_finish(w0))
                  /\ \E errno \in AddrInUseErrnos :
                        Commit(_startServer(_stopServer_finish(w0), address, port,
                                            requestsHandler, errno), lastOp.op)
                  /\ UNCHANGED loaded
    /\ hpc' = "idle"
    /\ cont' = "none"
    /\ UNCHANGED <<address, port, requestsHandler, requestsStack, foreign,
                   dispatched, prefs>>

\* one turn of the loop of processData(): popleft() and the Host calls for
\* the blob
Drain(op) ==
    IF requestsStack = <<>>
    THEN \* popleft() of an empty deque
         /\ raised' = "IndexError"
         /\ calls' = <<>>
         /\ hpc' = "idle"
         /\ lastOp' = op
         /\ idleTicks' = 0
         /\ dispatched' = [item |-> None, flip |-> FALSE, snapshot |-> 0]
         /\ UNCHANGED requestsStack
    ELSE LET p == popleft(requestsStack)
         IN  /\ requestsStack' = p.rest
             /\ calls' = processData(requestsHandler, p.item)
             /\ dispatched' = [item |-> p.item, flip |-> ~dispatched.flip,
                               snapshot |-> IF hpc = "idle"
                                            THEN Len(requestsStack) - 1
                                            ELSE IF dispatched.snapshot > 0
                                            THEN dispatched.snapshot - 1
                                            ELSE -1]
             /\ raised' = "none"
             /\ hpc' = "drain"
             /\ lastOp' = op
             /\ UNCHANGED idleTicks

\* processData() returns
Drained(op) ==
    /\ hpc' = "idle"
    /\ lastOp' = op
    /\ calls' = <<>>
    /\ raised' = "none"
    /\ idleTicks' = IF idleTicks < 2 THEN idleTicks + 1 ELSE 2
    /\ dispatched' = [item |-> None, flip |-> FALSE, snapshot |-> 0]
    /\ UNCHANGED requestsStack

\* the timer event calls Runtime.requestsHandler.processData()
TCPServer_timerEvent_OnEvent ==
    /\ HostIdle
    /\ LET op == Op("processData", "none", requestsStack = <<>>)
       IN  IF processData_while(requestsHandler, requestsStack)
           THEN Drain(op)
           ELSE Drained(op)
    /\ UNCHANGED <<runtimeVars, sock, cl, foreign, cont, loaded,
                   statusFile, prefs>>

\* processData() tests its loop condition again
processData_loop ==
    /\ hpc = "drain"
    /\ IF processData_while(requestsHandler, requestsStack)
       THEN Drain(lastOp)
       ELSE Drained(lastOp)
    /\ UNCHANGED <<runtimeVars, sock, cl, foreign, cont, loaded,
                   statusFile, prefs>>

\* ------------------------------------------------------ the server threads
\* a server that accepts a connection while a handler still runs
Accept_threaded(k, c) ==
    /\ sock[k].state \in {"select", "handle"}
    /\ cl[c].st = "pending"
    /\ cl[c].srv = k
    /\ sock' = [sock EXCEPT ![k].state = "handle", ![k].conn = c, ![k].allData = <<>>]
    /\ cl' = [cl EXCEPT ![c].st = "handled"]
    /\ UNCHANGED <<runtimeVars, requestsStack, foreign, hostVars, idleTicks,
                   dispatched, prefs>>

\* serve_forever() finds a connection in the backlog: it accepts it and
\* calls the handler on its own thread
Accept(k, c) ==
    /\ sock[k].state = "select"
    /\ cl[c].st = "pending"
    /\ cl[c].srv = k
    /\ sock' = [sock EXCEPT ![k].state = "handle", ![k].conn = c, ![k].allData = <<>>]
    /\ cl' = [cl EXCEPT ![c].st = "handled"]
    /\ UNCHANGED <<runtimeVars, requestsStack, foreign, hostVars, idleTicks,
                   dispatched, prefs>>

\* the blobs a turn of handle() appends, with the handler that queued them
Blobs(push, handler) ==
    [i \in 1..Len(push) |-> [data |-> push[i], by |-> handler]]

\* a server whose serve_forever() thread ends with the exception of a handler
Handle_crashing(k) ==
    /\ sock[k].state = "handle"
    /\ LET c == sock[k].conn
           data == IF cl[c].inbuf # <<>> THEN Head(cl[c].inbuf) ELSE ""
           t == handle(sock[k].handler, sock[k].allData, data)
       IN  /\ cl[c].inbuf # <<>> \/ cl[c].closed
           /\ requestsStack' = requestsStack \o Blobs(t.push, sock[k].handler)
           /\ idleTicks' = IF t.push # <<>> THEN 0 ELSE idleTicks
           /\ calls' = IF t.host # <<>> THEN t.host ELSE calls
           /\ IF t.next = "loop"
              THEN /\ sock' = [sock EXCEPT ![k].allData = t.allData]
                   /\ cl' = [cl EXCEPT ![c].inbuf = Tail(@),
                                       ![c].echoed = @ \o t.send]
              ELSE /\ sock' = [sock EXCEPT
                                ![k].state = IF t.next = "raise" THEN "exiting"
                                             ELSE "select",
                                ![k].conn = 0, ![k].allData = <<>>,
                                ![k].erred = @ \/ t.next = "raise"]
                   /\ cl' = [cl EXCEPT ![c] = IdleClient]
    /\ UNCHANGED <<runtimeVars, foreign, hpc, cont, loaded, statusFile,
                   raised, lastOp, dispatched, prefs>>

\* one turn of the loop of handle(): recv() returns a chunk, or "" when the
\* peer has closed; on return or on an exception SocketServer closes the
\* connection and serve_forever() goes on
Handle(k) ==
    /\ sock[k].state = "handle"
    /\ LET c == sock[k].conn
           data == IF cl[c].inbuf # <<>> THEN Head(cl[c].inbuf) ELSE ""
           t == handle(sock[k].handler, sock[k].allData, data)
       IN  /\ cl[c].inbuf # <<>> \/ cl[c].closed
           /\ requestsStack' = requestsStack \o Blobs(t.push, sock[k].handler)
           /\ idleTicks' = IF t.push # <<>> THEN 0 ELSE idleTicks
           /\ calls' = IF t.host # <<>> THEN t.host ELSE calls
           /\ IF t.next = "loop"
              THEN /\ sock' = [sock EXCEPT ![k].allData = t.allData]
                   /\ cl' = [cl EXCEPT ![c].inbuf = Tail(@),
                                       ![c].echoed = @ \o t.send]
              ELSE /\ sock' = [sock EXCEPT ![k].state = "select", ![k].conn = 0,
                                           ![k].allData = <<>>,
                                           ![k].erred = @ \/ t.next = "raise"]
                   /\ cl' = [cl EXCEPT ![c] = IdleClient]
    /\ UNCHANGED <<runtimeVars, foreign, hpc, cont, loaded, statusFile,
                   raised, lastOp, dispatched, prefs>>

\* serve_forever() sees the shutdown request and ends: shutdown() may return
LoopExit(k) ==
    /\ sock[k].state = "select"
    /\ sock[k].shutdownReq
    /\ sock' = [sock EXCEPT ![k].state = "exiting", ![k].shutdownReq = FALSE]
    /\ UNCHANGED <<runtimeVars, requestsStack, cl, foreign, hostVars, idleTicks,
                   dispatched, prefs>>

\* the thread ends and gives up its reference to the SocketServer object,
\* which is finalised when the TCPServer instance has given up its own
WorkerExit(k) ==
    /\ sock[k].state = "exiting"
    /\ IF server # None /\ server.srv = k
       THEN /\ sock' = [sock EXCEPT ![k].state = "dead"]
            /\ UNCHANGED cl
       ELSE LET w == closeSock(World, k)
            IN  /\ sock' = w.sock
                /\ cl' = w.cl
    /\ UNCHANGED <<runtimeVars, requestsStack, foreign, hostVars, idleTicks,
                   dispatched, prefs>>

\* --------------------------------------------------------------- clients
\* the blobs the connection of c can still add to Runtime.requestsStack: one
\* for each chunk on its way, one for the connection itself when its handler
\* queues a blob at the end of handle()
RECURSIVE pending(_)
pending(c) ==
    IF c = 0 THEN 0
    ELSE pending(c - 1)
         + (IF cl[c].st = "idle" THEN 0
            ELSE Len(cl[c].inbuf)
                 + (IF sock[cl[c].srv].handler = PythonStackDataRequestsHandler
                    THEN 1 ELSE 0))

\* a client sends only while the blobs queued and to come stay within MaxQueue
Load == Len(requestsStack) + pending(MaxClients)

Connect(c, k) ==
    /\ cl[c].st = "idle"
    /\ \A b \in Clients : cl[b].st = "idle" => c <= b
    /\ sock[k].state # "free"
    /\ Load < MaxQueue
    /\ cl' = [cl EXCEPT ![c] = [IdleClient EXCEPT !.st = "pending", !.srv = k]]
    /\ UNCHANGED <<runtimeVars, requestsStack, sock, foreign, hostVars,
                   idleTicks, dispatched, prefs>>

Send(c, data) ==
    /\ cl[c].st # "idle"
    /\ ~cl[c].closed
    /\ Len(cl[c].inbuf) < MaxInbuf
    /\ Len(cl[c].echoed) + Len(cl[c].inbuf) < MaxSend
    /\ Load < MaxQueue
    /\ cl' = [cl EXCEPT ![c].inbuf = Append(@, data)]
    /\ UNCHANGED <<runtimeVars, requestsStack, sock, foreign, hostVars,
                   idleTicks, dispatched, prefs>>

Close(c) ==
    /\ cl[c].st # "idle"
    /\ ~cl[c].closed
    /\ cl' = [cl EXCEPT ![c].closed = TRUE]
    /\ UNCHANGED <<runtimeVars, requestsStack, sock, foreign, hostVars,
                   idleTicks, dispatched, prefs>>

\* another process binds or releases a port
ForeignBind(p) ==
    /\ p \in ForeignPorts
    /\ heldBy(World, p) = "ok"
    /\ foreign' = foreign \cup {p}
    /\ UNCHANGED <<runtimeVars, requestsStack, sock, cl, hostVars, idleTicks,
                   dispatched, prefs>>

ForeignRelease(p) ==
    /\ p \in foreign
    /\ foreign' = foreign \ {p}
    /\ UNCHANGED <<runtimeVars, requestsStack, sock, cl, hostVars, idleTicks,
                   dispatched, prefs>>

\* ---------------------------------------------------------- specification
\* the steps of the server thread of the SocketServer object k
ServerStep(k) ==
    \/ \E c \in Clients : Accept(k, c)
    \/ Handle(k)
    \/ LoopExit(k)
    \/ WorkerExit(k)

\* the steps of the poll: the timer event and the loop of processData()
PollStep ==
    \/ TCPServer_timerEvent_OnEvent
    \/ processData_loop

ForeignStep ==
    \/ \E p \in Ports : ForeignBind(p)
    \/ \E p \in Ports : ForeignRelease(p)

Next ==
    \/ TCPServer_startupEvent_OnEvent
    \/ TCPServer_start_Execute
    \/ TCPServer_stop_Execute
    \/ XSIUnloadPlugin
    \/ TCPServer_property_Address_siString_OnChanged
    \/ TCPServer_property_Port_siInt_OnChanged
    \/ TCPServer_property_RequestsHandlers_siInt_OnChanged
    \/ \E p \in PortInputs : TCPServer__init__(p)
    \/ TCPServer_start
    \/ TCPServer_stop
    \/ ShutdownReturns
    \/ PollStep
    \/ \E k \in SrvIds : ServerStep(k)
    \/ \E c \in Clients, k \in SrvIds : Connect(c, k)
    \/ \E c \in Clients, data \in Chunks : Send(c, data)
    \/ \E c \in Clients : Close(c)
    \/ ForeignStep

Spec == Init /\ [][Next]_vars

\* the life cycle of the server: every operation that starts or stops it, one
\* client that connects and closes, other processes that take the port
InitLife == Init /\ prefs = None

NextLife ==
    \/ TCPServer_startupEvent_OnEvent
    \/ TCPServer_start_Execute
    \/ TCPServer_stop_Execute
    \/ XSIUnloadPlugin
    \/ TCPServer_property_Address_siString_OnChanged
    \/ TCPServer_property_Port_siInt_OnChanged
    \/ TCPServer_property_RequestsHandlers_siInt_OnChanged
    \/ TCPServer_start
    \/ TCPServer_stop
    \/ ShutdownReturns
    \/ \E k \in SrvIds : ServerStep(k)
    \/ \E k \in SrvIds : Connect(1, k)
    \/ Close(1)
    \/ ForeignStep

SpecLife == InitLife /\ [][NextLife]_vars

\* the path of the data: one client that sends chunks to a server of any
\* handler, the poll, and the operations that stop the server or restart it
\* with another handler
InitData == Init /\ prefs = None

NextData ==
    \/ TCPServer_startupEvent_OnEvent
    \/ TCPServer_start_Execute
    \/ TCPServer_stop_Execute
    \/ TCPServer_property_RequestsHandlers_siInt_OnChanged
    \/ ShutdownReturns
    \/ PollStep
    \/ \E k \in SrvIds : ServerStep(k)
    \/ \E k \in SrvIds : Connect(1, k)
    \/ \E data \in Chunks : Send(1, data)
    \/ Close(1)

SpecData == InitData /\ [][NextData]_vars

\* several clients of one server that is started once, with the handler the
\* preferences hold, and stopped once
InitConc == Init /\ prefs # None /\ prefs.port = defaultPort

NextConc ==
    \/ TCPServer_startupEvent_OnEvent
    \/ TCPServer_stop_Execute
    \/ ShutdownReturns
    \/ PollStep
    \/ \E k \in SrvIds : ServerStep(k)
    \/ \E c \in Clients, k \in SrvIds : Connect(c, k)
    \/ \E c \in Clients, data \in Chunks : Send(c, data)
    \/ \E c \in Clients : Close(c)

SpecConc == InitConc /\ [][NextConc]_vars

\* the framing of PythonStackDataRequestsHandler: one client of a server of
\* that handler sends the reads of FrameChunks, and the poll
InitFrame ==
    /\ Init
    /\ prefs # None
    /\ prefs.handler = PythonStackDataRequestsHandler
    /\ prefs.port = defaultPort

NextFrame ==
    \/ TCPServer_startupEvent_OnEvent
    \/ TCPServer_stop_Execute
    \/ ShutdownReturns
    \/ PollStep
    \/ \E k \in SrvIds : ServerStep(k)
    \/ \E k \in SrvIds : Connect(1, k)
    \/ \E data \in FrameChunks : Send(1, data)
    \/ Close(1)

SpecFrame == InitFrame /\ [][NextFrame]_vars

\* the dispatch of DefaultStackDataRequestsHandler: one client of a server
\* of that handler sends the reads of DispChunks, and the poll
InitDisp ==
    /\ Init
    /\ prefs # None
    /\ prefs.handler = DefaultStackDataRequestsHandler
    /\ prefs.port = defaultPort

NextDisp ==
    \/ TCPServer_startupEvent_OnEvent
    \/ TCPServer_stop_Execute
    \/ ShutdownReturns
    \/ PollStep
    \/ \E k \in SrvIds : ServerStep(k)
    \/ \E k \in SrvIds : Connect(1, k)
    \/ \E data \in DispChunks : Send(1, data)
    \/ Close(1)

SpecDisp == InitDisp /\ [][NextDisp]_vars

\* the operations of the host on the server (the startup event, the
\* commands, the changes of the settings, the unload of the plugin), with
\* no direct call of the methods of the TCPServer instance
InitHost == Init /\ prefs = None

NextHost ==
    \/ TCPServer_startupEvent_OnEvent
    \/ TCPServer_start_Execute
    \/ TCPServer_stop_Execute
    \/ XSIUnloadPlugin
    \/ TCPServer_property_Address_siString_OnChanged
    \/ TCPServer_property_Port_siInt_OnChanged
    \/ TCPServer_property_RequestsHandlers_siInt_OnChanged
    \/ ShutdownReturns
    \/ \E k \in SrvIds : ServerStep(k)
    \/ \E k \in SrvIds : Connect(1, k)
    \/ Close(1)
    \/ ForeignStep

SpecHost == InitHost /\ [][NextHost]_vars

\* the TCPServer class used directly: instances are constructed with the
\* ports of PortInputs, started and stopped, one client sends chunks, and
\* the poll
InitPort == Init /\ prefs = None

NextPort ==
    \/ \E p \in PortInputs : TCPServer__init__(p)
    \/ TCPServer_start
    \/ TCPServer_stop
    \/ ShutdownReturns
    \/ \E k \in SrvIds : ServerStep(k)
    \/ \E k \in SrvIds : Connect(1, k)
    \/ \E data \in Chunks : Send(1, data)
    \/ Close(1)
    \/ PollStep

SpecPort == InitPort /\ [][NextPort]_vars

\* ------------------------------------------------------------- properties
Offline == server = None \/ ~server.online

\* the accept loops that serve connections
Serving == {k \in SrvIds : sock[k].state \in {"select", "handle"}}

\* a step of the host thread that ends a call of processData()
PollCompletes ==
    /\ TCPServer_timerEvent_OnEvent \/ processData_loop
    /\ hpc' = "idle"

\* C1: every call of a Host capability (log, execute, executeFile) is made
\* on the host thread, which runs processData() and the start and stop
\* operations; no handle() of any handler, on a server thread, makes one.
C1_HostCallsOnHostThread ==
    \A i \in 1..Len(calls) : calls[i].thread = "host" /\ calls[i].by # "handle"

\* a handle() is running, it has queued a blob already, and the latest Host
\* calls are the ones processData() made on the host thread
C1_Witness ==
    /\ \E k \in SrvIds : sock[k].state = "handle"
    /\ requestsStack # <<>>
    /\ calls # <<>>
    /\ calls[1].by = "processData"

\* C2: while stop() waits in shutdown(), the program can always take a step
\* on its own, so that stop() returns whatever the clients do.
C2_StopNeverWaitsOnClient ==
    hpc = "stop_wait" => ENABLED (ShutdownReturns \/ \E k \in SrvIds : ServerStep(k))

C4_PortInUseIsLogged ==
    (hpc = "idle" /\ lastOp.bind \in {"foreign", "own"})
        => /\ raised = "none"
           /\ \E i \in 1..Len(calls) : calls[i].cap = "log" /\ calls[i].by = "start"
           /\ ~server.online

\* C5: start() of an Online server and stop() of an Offline server raise
\* ServerOperationError and leave the online flag, the SocketServer object
\* and its thread as they were.
C5_MisuseRaises ==
    [][ /\ (TCPServer_start /\ server.online)
            => (raised' = "ServerOperationError" /\ server' = server /\ sock' = sock)
        /\ (TCPServer_stop /\ ~server.online)
            => (raised' = "ServerOperationError" /\ server' = server /\ sock' = sock
                /\ hpc' = "idle") ]_vars

\* start() has been called on the Online server and has raised
C5_Witness ==
    /\ lastOp.op = "start"
    /\ raised = "ServerOperationError"
    /\ server # None
    /\ server.online
    /\ sock[server.srv].state \in {"select", "handle"}

\* C6: once a server has been stopped its listening socket is released: no
\* start() finds its port held by a socket of this program.
C6_StoppedServerReleasesPort ==
    lastOp.bind # "own"

\* C7: at most one accept loop serves, and it is the one of Runtime.server,
\* which is Online.
C7_AtMostOneOnline ==
    /\ Cardinality(Serving) <= 1
    /\ \A k \in Serving : server # None /\ server.online /\ server.srv = k

\* a restart has started a new server while the thread of the server it has
\* stopped is still ending
C7_Witness ==
    /\ hpc = "idle"
    /\ lastOp.op = "TCPServer_property_Port_siInt_OnChanged"
    /\ server # None /\ server.online
    /\ \E k \in SrvIds : sock[k].state = "exiting"

\* C8: the deque changes only by an append at its right end or by the pop of
\* its left end, and a blob is dispatched only in the step that removes it
\* from the left end.
C8_DestructiveFifo ==
    [][ /\ (dispatched' # dispatched /\ dispatched'.item # None)
            => /\ requestsStack # <<>>
               /\ dispatched'.item = Head(requestsStack)
               /\ requestsStack' = Tail(requestsStack)
        /\ (requestsStack' # requestsStack)
            => \/ /\ Len(requestsStack') > Len(requestsStack)
                  /\ SubSeq(requestsStack', 1, Len(requestsStack)) = requestsStack
                  /\ dispatched' = dispatched
               \/ /\ requestsStack # <<>>
                  /\ requestsStack' = Tail(requestsStack)
                  /\ dispatched'.item = Head(requestsStack)
                  /\ dispatched'.flip # dispatched.flip ]_vars

\* processData() has dispatched the first of two queued blobs
C8_Witness ==
    /\ hpc = "drain"
    /\ dispatched.item # None
    /\ requestsStack # <<>>

\* C9: a processData() that finds the deque empty makes no Host call and
\* raises nothing; the second of two calls in a row with no push in between
\* makes no Host call, raises nothing and leaves the deque as it was (empty,
\* unless the handler is EchoRequestsHandler).
C9_EmptyDrainIsNoOp ==
    /\ (hpc = "idle" /\ lastOp.op = "processData" /\ lastOp.empty)
          => (calls = <<>> /\ raised = "none")
    /\ (lastOp.op = "processData" /\ lastOp.empty /\ idleTicks >= 1)
          => requestsStack = <<>>
    /\ idleTicks = 2
          => /\ hpc = "idle"
             /\ lastOp.empty \/ requestsHandler = EchoRequestsHandler
             /\ calls = <<>>
             /\ raised = "none"
             /\ requestsHandler # EchoRequestsHandler => requestsStack = <<>>

\* processData() of a handler that drains has been called twice in a row
C9_Witness ==
    /\ idleTicks = 2
    /\ requestsHandler = LoggingStackDataRequestsHandler
    /\ lastOp.op = "processData"

\* C10 as claimed: a call of processData() made while the server is stopped
\* leaves the deque empty, whichever handler is the configured one.
C10_AnyHandlerDrains ==
    [][ (PollCompletes /\ Offline) => requestsStack' = <<>> ]_vars

\* C10 as amended: stop() and the restart leave the deque as it is; a call
\* of processData() made while the server is stopped leaves the deque empty
\* when the handler configured is LoggingStack, DefaultStack or PythonStack,
\* and leaves it as it is when the handler is EchoRequestsHandler.
C10_StackHandlersDrain ==
    [][ /\ (hpc' # hpc /\ "stop_wait" \in {hpc, hpc'})
            => requestsStack' = requestsStack
        /\ (PollCompletes /\ Offline)
            => IF requestsHandler = EchoRequestsHandler
               THEN requestsStack' = requestsStack
               ELSE requestsStack' = <<>> ]_vars

\* processData() dispatches a blob that a server, now stopped, has queued
C10_Witness ==
    /\ hpc = "drain"
    /\ server # None /\ ~server.online
    /\ dispatched.item # None

\* the chunk the next recv() of the handler of the object k returns
NextRead(k) ==
    IF cl[sock[k].conn].inbuf # <<>> THEN Head(cl[sock[k].conn].inbuf) ELSE ""

\* handle() of the object k raises on its next read
Raises(k) ==
    /\ sock[k].state = "handle"
    /\ handle(sock[k].handler, sock[k].allData, NextRead(k)).next = "raise"

\* C11: an exception of handle() ends its own connection and nothing else:
\* the accept loop of the server goes on, the server and the host thread are
\* as they were, the other connections are untouched, and a server that has
\* had such an error still accepts the connections that wait for it.
C11_HandleErrorIsContained ==
    /\ [][\A k \in SrvIds :
            (Raises(k) /\ Handle(k)) =>
                /\ sock'[k].state = "select"
                /\ sock'[k].shutdownReq = sock[k].shutdownReq
                /\ cl'[sock[k].conn] = IdleClient
                /\ \A c \in Clients \ {sock[k].conn} : cl'[c] = cl[c]
                /\ server' = server
                /\ requestsStack' = requestsStack
                /\ hpc' = hpc /\ raised' = raised /\ calls' = calls]_vars
    /\ [](\A k \in SrvIds, c \in Clients :
            (sock[k].erred /\ sock[k].state = "select"
               /\ cl[c].st = "pending" /\ cl[c].srv = k)
            => ENABLED Accept(k, c))

\* a server whose handler has raised is online and serves a later connection
C11_Witness ==
    \E k \in SrvIds :
        /\ sock[k].erred
        /\ sock[k].state = "handle"
        /\ server # None /\ server.online /\ server.srv = k
        /\ cl[sock[k].conn].inbuf # <<>>

\* a blob that handle() of PythonStackDataRequestsHandler queues
PythonBlob(data) == [data |-> data, by |-> PythonStackDataRequestsHandler]

\* C12: a PythonStack handle() that has made at most one read keeps reading
\* and keeps the bytes while no terminator has come, and when the bytes of
\* its first two reads hold the terminator (whole in the second read or
\* split between the two) it returns and queues one blob: the bytes before
\* the terminator.
C12_FramingAcrossTwoReads ==
    [][\A k \in SrvIds :
         (/\ sock[k].state = "handle"
          /\ sock[k].handler = PythonStackDataRequestsHandler
          /\ Len(sock[k].allData) <= 1
          /\ NextRead(k) # ""
          /\ Handle(k))
         => LET buf == join(sock[k].allData) \o NextRead(k)
            IN  IF contains(buf, requestEnd)
                THEN /\ sock'[k].state = "select"
                     /\ requestsStack' =
                          Append(requestsStack,
                                 PythonBlob(prefix(buf, find(buf, requestEnd))))
                ELSE /\ sock'[k].state = "handle"
                     /\ join(sock'[k].allData) = buf
                     /\ requestsStack' = requestsStack]_vars

\* C13: a read of a PythonStack handle() that holds the terminator ends the
\* connection and queues one blob, the bytes received before the terminator;
\* the processData() of PythonStack that pops a blob removes it and executes
\* it as Python code, once.
C13_FramingWithinOneRead ==
    /\ [][\A k \in SrvIds :
            (/\ sock[k].state = "handle"
             /\ sock[k].handler = PythonStackDataRequestsHandler
             /\ contains(NextRead(k), requestEnd)
             /\ Handle(k))
            => /\ sock'[k].state = "select"
               /\ cl'[sock[k].conn] = IdleClient
               /\ requestsStack' =
                    Append(requestsStack,
                           PythonBlob(join(sock[k].allData)
                                      \o prefix(NextRead(k),
                                                find(NextRead(k), requestEnd))))]_vars
    /\ [][(/\ requestsHandler = PythonStackDataRequestsHandler
           /\ TCPServer_timerEvent_OnEvent \/ processData_loop
           /\ requestsStack # <<>>)
          => /\ requestsStack' = Tail(requestsStack)
             /\ dispatched'.item = Head(requestsStack)
             /\ calls' = <<HostCall("execute", Head(requestsStack).data,
                                    "Python", "host", "processData"),
                           ReturnValue>>]_vars

\* the poll executes the blob "ab" that the read "ab<!RE>c" has left
C13_Witness ==
    /\ hpc = "drain"
    /\ requestsHandler = PythonStackDataRequestsHandler
    /\ dispatched.item = PythonBlob("ab")
    /\ calls # <<>>
    /\ calls[1].cap = "execute"
    /\ calls[1].arg = "ab"

\* processData() of DefaultStackDataRequestsHandler pops a blob
DefaultPops ==
    /\ requestsHandler = DefaultStackDataRequestsHandler
    /\ TCPServer_timerEvent_OnEvent \/ processData_loop
    /\ requestsStack # <<>>

\* the trimmed text of the blob at the head of the queue
Trimmed == strip(Head(requestsStack).data)

\* the text d starts with the tag t, optional whitespace and "|"
Tagged(d, t) ==
    /\ Len(d) >= Len(t)
    /\ prefix(d, Len(t)) = t
    /\ skipWs(d, Len(t) + 1) <= Len(d)
    /\ char(d, skipWs(d, Len(t) + 1)) = "|"

\* C14: a blob whose trimmed text is an existing path is removed and passed
\* to executeFile, with no other Host call, also when the text reads as
\* tagged code.
C14_PathTakesPrecedence ==
    [][(DefaultPops /\ exists(Trimmed))
       => /\ requestsStack' = Tail(requestsStack)
          /\ calls' = <<HostCall("executeFile", Trimmed, "", "host",
                                 "processData")>>]_vars

\* the poll has passed the existing path "Python|f" to executeFile
C14_Witness ==
    /\ hpc = "drain"
    /\ dispatched.item # None
    /\ dispatched.item.data = "Python|f"
    /\ calls = <<HostCall("executeFile", "Python|f", "", "host", "processData")>>

\* C15: a blob that is no existing path and whose trimmed text starts with a
\* tag, optional whitespace and "|" gets one execute call, with the tag as
\* language and all the text after the first "|" as code.
C15_TaggedCodeIsWhole ==
    [][\A i \in 1..Len(languages) :
         (DefaultPops /\ ~exists(Trimmed) /\ Tagged(Trimmed, languages[i]))
         => LET afterBar == SubSeq(Trimmed, find(Trimmed, "|") + 2, Len(Trimmed))
            IN  SelectSeq(calls', LAMBDA h : h.cap \in {"execute", "executeFile"})
                  = <<HostCall("execute", afterBar, languages[i], "host",
                               "processData")>>]_vars

\* C16: a blob that is no existing path and starts with no tag is removed
\* with no Host call and no error, the tick goes on, and a tick of the
\* handler ends only when the queue is empty.
C16_UnrecognizedIsDropped ==
    /\ [][(/\ DefaultPops
           /\ ~exists(Trimmed)
           /\ \A i \in 1..Len(languages) : ~Tagged(Trimmed, languages[i]))
          => /\ requestsStack' = Tail(requestsStack)
             /\ calls' = <<>>
             /\ raised' = "none"
             /\ hpc' = "drain"]_vars
    /\ [][(requestsHandler = DefaultStackDataRequestsHandler /\ PollCompletes)
          => requestsStack' = <<>> /\ raised' = "none"]_vars

\* the poll has dropped the blob "zz" and another blob waits behind it
C16_Witness ==
    /\ hpc = "drain"
    /\ requestsHandler = DefaultStackDataRequestsHandler
    /\ dispatched.item # None
    /\ dispatched.item.data = "zz"
    /\ calls = <<>>
    /\ requestsStack # <<>>

\* C17: each read of an Echo handle() is written back to its connection as
\* it is and after the chunks written before, a zero-length read ends
\* handle(), no read changes the queue or calls the Host; the processData()
\* of Echo returns at once and changes neither the queue nor the Host.
C17_EchoWritesBack ==
    /\ [][\A k \in SrvIds :
            (/\ sock[k].state = "handle"
             /\ sock[k].handler = EchoRequestsHandler
             /\ Handle(k))
            => LET c == sock[k].conn
               IN  /\ requestsStack' = requestsStack
                   /\ calls' = calls
                   /\ IF NextRead(k) = ""
                      THEN sock'[k].state = "select" /\ cl'[c] = IdleClient
                      ELSE /\ sock'[k].state = "handle"
                           /\ cl'[c].echoed = Append(cl[c].echoed, NextRead(k))
                           /\ cl'[c].inbuf = Tail(cl[c].inbuf)]_vars
    /\ [][(/\ requestsHandler = EchoRequestsHandler
           /\ TCPServer_timerEvent_OnEvent \/ processData_loop)
          => /\ requestsStack' = requestsStack
             /\ calls' = <<>>
             /\ raised' = "none"
             /\ hpc' = "idle"]_vars

\* a client of an Echo server has got its two chunks back, in their order
C17_Witness ==
    \E c \in Clients :
        /\ cl[c].st = "handled"
        /\ sock[cl[c].srv].handler = EchoRequestsHandler
        /\ cl[c].echoed = <<"JScript|a<!RE>", "a">>

\* C18: when an operation of the host on the server has returned, the
\* status file has been written and its active flag is 1 exactly when the
\* server is online.
C18_StatusTracksServer ==
    (hpc = "idle" /\ lastOp.op # "none" /\ raised = "none")
    => /\ statusFile # None
       /\ statusFile.active = 1 <=> ~Offline

\* C19: no TCPServer instance holds a port outside 0..65535, and no start()
\* gets as far as binding one.
C19_PortInRange ==
    /\ server # None => server.port \in 0..65535
    /\ raised # "OverflowError"

\* C20: every blob a call of processData() dispatches was in the queue when
\* the call began; a blob pushed while the call runs is left for the next.
C20_DrainIsSnapshot ==
    dispatched.item # None => dispatched.snapshot >= 0

\* C21: a PythonStack handle() looks for the terminator in the read and in
\* the last two reads together, and no further back: after a read in which
\* that finds none (so also when the bytes of a terminator are spread over
\* three reads or more) it keeps the read and reads again, with no blob
\* queued.
C21_LookbackOfTwoReads ==
    [][\A k \in SrvIds :
         (/\ sock[k].state = "handle"
          /\ sock[k].handler = PythonStackDataRequestsHandler
          /\ NextRead(k) # ""
          /\ ~contains(NextRead(k), requestEnd)
          /\ IF sock[k].allData = <<>> THEN TRUE
             ELSE ~contains(sock[k].allData[Len(sock[k].allData)] \o NextRead(k),
                            requestEnd)
          /\ Handle(k))
         => /\ sock'[k].state = "handle"
            /\ sock'[k].allData = Append(sock[k].allData, NextRead(k))
            /\ requestsStack' = requestsStack]_vars

\* C22 as stated: the blob a processData() has popped was queued by the
\* handle() of the same handler, the one that is configured.
C22_SameVariantDispatches ==
    (hpc = "drain" /\ dispatched.item # None)
    => dispatched.item.by = requestsHandler

\* C22: the blob a tick pops is dispatched by the processData() of the
\* handler that is configured at that tick, whichever handler queued it:
\* logged by LoggingStack, run as a path or as tagged code by DefaultStack,
\* executed as Python code by PythonStack.
C22_ConfiguredVariantDispatches ==
    [][(/\ TCPServer_timerEvent_OnEvent \/ processData_loop
        /\ requestsStack # <<>>
        /\ requestsHandler # EchoRequestsHandler)
       => LET blob == Head(requestsStack)
          IN  /\ dispatched'.item = blob
              /\ requestsHandler = LoggingStackDataRequestsHandler
                   => calls' = LoggingStackDataRequestsHandler_processData(blob)
              /\ requestsHandler = DefaultStackDataRequestsHandler
                   => calls' = DefaultStackDataRequestsHandler_processData(blob)
              /\ requestsHandler = PythonStackDataRequestsHandler
                   => calls' = PythonStackDataRequestsHandler_processData(blob)]_vars

\* the processData() of LoggingStack has logged a blob that the handle() of
\* PythonStack had queued
C22_Witness ==
    /\ hpc = "drain"
    /\ requestsHandler = LoggingStackDataRequestsHandler
    /\ dispatched.item # None
    /\ dispatched.item.by = PythonStackDataRequestsHandler
    /\ calls = <<HostCall("log", dispatched.item.data, "", "host", "processData")>>

\* C23: a connection of PythonStack ends with exactly one blob queued; while
\* no terminator has come, a read of handle() that brings bytes is kept and
\* handle() reads again, and the zero-length read of the close of the peer
\* makes handle() queue the bytes received so far (none, one read or more)
\* as one blob and return without an error.
C23_OneBlobPerConnection ==
    [][\A k \in SrvIds :
         (/\ sock[k].state = "handle"
          /\ sock[k].handler = PythonStackDataRequestsHandler
          /\ Handle(k))
         => /\ sock'[k].state # "handle"
                 => /\ Len(requestsStack') = Len(requestsStack) + 1
                    /\ sock'[k].erred = sock[k].erred
            /\ ~contains(join(sock[k].allData) \o NextRead(k), requestEnd)
                 => IF NextRead(k) = ""
                    THEN /\ sock'[k].state = "select"
                         /\ requestsStack' =
                              Append(requestsStack,
                                     PythonBlob(join(sock[k].allData)))
                    ELSE /\ sock'[k].state = "handle"
                         /\ join(sock'[k].allData)
                              = join(sock[k].allData) \o NextRead(k)
                         /\ requestsStack' = requestsStack]_vars

====
